---- MODULE Spec2Model ----
(***************************************************************************)
(* Model of crates/types/src/user_operation.rs (Rundler): the canonical    *)
(* hash, the ABI size arithmetic, the leading-address extraction and the   *)
(* entity enumeration of a UserOperation.                                  *)
(*                                                                         *)
(* Values.  A byte is a number in 0..255 and a byte string (Bytes) is a    *)
(* sequence of bytes.  An Address is a 20-byte string, a U256 a 32-byte    *)
(* big-endian string, a u64 an 8-byte big-endian string, so every integer  *)
(* keeps its width.  An ABI encoding is a sequence of 32-byte words.       *)
(* Option<T> is a sequence of length 0 (None) or 1 (Some).                 *)
(***************************************************************************)
EXTENDS Integers, Sequences, FiniteSets, TLC

VARIABLES
    op,            \* the UserOperation the functions are applied to (&self)
    entry_point,   \* op_hash argument
    chain_id,      \* op_hash argument (u64)
    op2,           \* a second operation, for claims that compare two calls
    entry_point2,
    chain_id2,
    data,          \* the Bytes argument of get_address_from_field / pad_len
    ret,           \* record of the last call: function, result(s)
    iter,          \* the iterator returned by entities(): position, items yielded
    earlier,       \* what the previous exhausted iterator yielded, if any
    kc             \* concrete Keccak-256 evaluation of op_hash (SpecKeccak)

vars == <<op, entry_point, chain_id, op2, entry_point2, chain_id2, data, ret, iter, earlier, kc>>

(***************************************************************************)
(* Bounds of the model.                                                    *)
(***************************************************************************)
\* longest dynamic byte field drawn by Init of Spec
MaxLen == 34
\* largest byte value used inside the fields drawn by Init of SpecHash
MaxByte == 1

(***************************************************************************)
(* Primitive types.                                                        *)
(***************************************************************************)
Byte == 0..255

Zeros(n) == [i \in 1..n |-> 0]

None == <<>>
Some(v) == <<v>>

\* U256::from(n) for a small machine integer n: 32 bytes, big-endian.
U256FromNat(n) ==
    [i \in 1..32 |-> IF i <= 28 THEN 0 ELSE (n \div (256 ^ (32 - i))) % 256]

\* u64 literal: 8 bytes, big-endian, given as high and low 32-bit halves.
U64FromHalves(hi, lo) ==
    [i \in 1..8 |-> IF i <= 4 THEN (hi \div (256 ^ (4 - i))) % 256
                              ELSE (lo \div (256 ^ (8 - i))) % 256]

\* variant of U256FromU64 that keeps only the low 32 bits of the chain id
U256FromU64_truncated(c) == Zeros(28) \o SubSeq(c, 5, 8)

\* chain_id.into(): u64 -> U256 is a zero extension to the full word.
U256FromU64(c) == Zeros(24) \o c

\* the outcome of a call that panics: neither None nor Some(_)
Panic == << <<>>, <<>> >>

\* &data[..n] panics when n exceeds the length
SliceTo(d, n) == IF n <= Len(d) THEN Some(SubSeq(d, 1, n)) ELSE Panic

\* Address::from_slice(s) copies the 20 bytes of s
Address_from_slice(s) == [i \in 1..20 |-> s[i]]

(***************************************************************************)
(* usize arithmetic of pad_len: n & !m, computed bit by bit.  Lengths stay *)
(* far below the machine word, so n + 31 does not wrap.                    *)
(***************************************************************************)
RECURSIVE AndNot(_, _)
AndNot(n, m) ==
    IF n = 0 THEN 0
    ELSE (IF n % 2 = 1 /\ m % 2 = 0 THEN 1 ELSE 0) + 2 * AndNot(n \div 2, m \div 2)

PACKED_USER_OPERATION_FIXED_LEN == 480

\* variant of pad_len that adds 32 instead of 31 before masking
pad_len_plus_32(b) == AndNot(Len(b) + 32, 31)

pad_len(b) == AndNot(Len(b) + 31, 31)

(***************************************************************************)
(* ethers::abi: tokens and encode.                                         *)
(* encode lays out one head word per token (the value of a static token,   *)
(* the byte offset of the tail of a dynamic one) followed by the tails     *)
(* (a length word and the bytes right-padded to whole words).              *)
(***************************************************************************)
Token_Address(a) == [kind |-> "Address", val |-> a]
Token_Uint(u) == [kind |-> "Uint", val |-> u]
Token_FixedBytes(b) == [kind |-> "FixedBytes", val |-> b]
Token_Bytes(b) == [kind |-> "Bytes", val |-> b]

IsDynamic(t) == t.kind = "Bytes"

\* bytes right-padded with zeros and cut into 32-byte words
WordsOfBytes(b) ==
    LET n == (Len(b) + 31) \div 32
    IN [j \in 1..n |-> [i \in 1..32 |-> IF 32 * (j - 1) + i <= Len(b)
                                         THEN b[32 * (j - 1) + i] ELSE 0]]

HeadWord(t, offset) ==
    CASE t.kind = "Address" -> Zeros(12) \o t.val
      [] t.kind = "Uint" -> t.val
      [] t.kind = "FixedBytes" -> t.val
      [] t.kind = "Bytes" -> U256FromNat(offset)

TailWords(t) ==
    IF IsDynamic(t) THEN <<U256FromNat(Len(t.val))>> \o WordsOfBytes(t.val) ELSE <<>>

RECURSIVE TailsBefore(_, _)
TailsBefore(tokens, k) ==
    IF k = 0 THEN <<>> ELSE TailsBefore(tokens, k - 1) \o TailWords(tokens[k])

encode(tokens) ==
    LET n == Len(tokens)
        heads == [k \in 1..n |->
                    HeadWord(tokens[k], 32 * (n + Len(TailsBefore(tokens, k - 1))))]
    IN heads \o TailsBefore(tokens, n)

\* length in bytes of an encoding
ByteLen(words) == 32 * Len(words)

(***************************************************************************)
(* keccak256 as an ideal digest: the digest of x is a value that           *)
(* determines x.  SpecKeccak below evaluates the concrete function.        *)
(***************************************************************************)
keccak256(x) == [keccak256_of |-> x]

(***************************************************************************)
(* impl UserOperation                                                      *)
(***************************************************************************)
\* variant of PackTokens with the two gas limits in the other order
PackTokens_gas_limits_swapped(o, hash_init_code, hash_call_data, hash_paymaster_and_data) ==
    << Token_Address(o.sender),
       Token_Uint(o.nonce),
       Token_FixedBytes(hash_init_code),
       Token_FixedBytes(hash_call_data),
       Token_Uint(o.verification_gas_limit),
       Token_Uint(o.call_gas_limit),
       Token_Uint(o.pre_verification_gas),
       Token_Uint(o.max_fee_per_gas),
       Token_Uint(o.max_priority_fee_per_gas),
       Token_FixedBytes(hash_paymaster_and_data) >>

PackTokens(o, hash_init_code, hash_call_data, hash_paymaster_and_data) ==
    << Token_Address(o.sender),
       Token_Uint(o.nonce),
       Token_FixedBytes(hash_init_code),
       Token_FixedBytes(hash_call_data),
       Token_Uint(o.call_gas_limit),
       Token_Uint(o.verification_gas_limit),
       Token_Uint(o.pre_verification_gas),
       Token_Uint(o.max_fee_per_gas),
       Token_Uint(o.max_priority_fee_per_gas),
       Token_FixedBytes(hash_paymaster_and_data) >>

\* variant of pack_for_hash that appends the digest of the signature
pack_for_hash_with_signature(o) ==
    LET hash_init_code == keccak256(o.init_code)
        hash_call_data == keccak256(o.call_data)
        hash_paymaster_and_data == keccak256(o.paymaster_and_data)
    IN encode(PackTokens(o, hash_init_code, hash_call_data, hash_paymaster_and_data)
              \o <<Token_FixedBytes(keccak256(o.signature))>>)

pack_for_hash(o) ==
    LET hash_init_code == keccak256(o.init_code)
        hash_call_data == keccak256(o.call_data)
        hash_paymaster_and_data == keccak256(o.paymaster_and_data)
    IN encode(PackTokens(o, hash_init_code, hash_call_data, hash_paymaster_and_data))

\* variant of OpHashTokens with the chain id before the entry point
OpHashTokens_chain_first(hash_packed, ep, c) ==
    << Token_FixedBytes(hash_packed),
       Token_Uint(U256FromU64(c)),
       Token_Address(ep) >>

OpHashTokens(hash_packed, ep, c) ==
    << Token_FixedBytes(hash_packed),
       Token_Address(ep),
       Token_Uint(U256FromU64(c)) >>

op_hash(o, ep, c) ==
    keccak256(encode(OpHashTokens(keccak256(pack_for_hash(o)), ep, c)))

id(o) == [sender |-> o.sender, nonce |-> o.nonce]

\* variant of get_address_from_field whose guard is one byte too strict
get_address_from_field_off_by_one(d) ==
    IF Len(d) < 21 THEN None
    ELSE LET s == SliceTo(d, 20)
         IN IF s = Panic THEN Panic ELSE Some(Address_from_slice(s[1]))

get_address_from_field(d) ==
    IF Len(d) < 20 THEN None
    ELSE LET s == SliceTo(d, 20)
         IN IF s = Panic THEN Panic ELSE Some(Address_from_slice(s[1]))

factory(o) == get_address_from_field(o.init_code)

paymaster(o) == get_address_from_field(o.paymaster_and_data)

\* variant of abi_encoded_size that does not pad the signature
abi_encoded_size_unpadded_signature(o) ==
    PACKED_USER_OPERATION_FIXED_LEN
        + pad_len(o.init_code)
        + pad_len(o.call_data)
        + pad_len(o.paymaster_and_data)
        + Len(o.signature)

abi_encoded_size(o) ==
    PACKED_USER_OPERATION_FIXED_LEN
        + pad_len(o.init_code)
        + pad_len(o.call_data)
        + pad_len(o.paymaster_and_data)
        + pad_len(o.signature)

\* variant of heap_size that leaves the signature out
heap_size_without_signature(o) ==
    Len(o.init_code) + Len(o.call_data) + Len(o.paymaster_and_data)

heap_size(o) ==
    Len(o.init_code) + Len(o.call_data) + Len(o.paymaster_and_data) + Len(o.signature)

\* EntityType::iter(): the variants in declaration order
EntityType_iter == <<"Account", "Paymaster", "Factory", "Aggregator">>

Entity_new(kind, address) == [kind |-> kind, address |-> address]

\* variant of entity_address with the paymaster and factory fields exchanged
entity_address_swapped(o, entity) ==
    CASE entity = "Account" -> Some(o.sender)
      [] entity = "Paymaster" -> factory(o)
      [] entity = "Factory" -> paymaster(o)
      [] entity = "Aggregator" -> None

entity_address(o, entity) ==
    CASE entity = "Account" -> Some(o.sender)
      [] entity = "Paymaster" -> paymaster(o)
      [] entity = "Factory" -> factory(o)
      [] entity = "Aggregator" -> None

\* one step of filter_map: the item yielded for an entity type, if any
FilterMapItem(o, entity) ==
    LET a == entity_address(o, entity)
    IN IF a = None THEN <<>> ELSE <<Entity_new(entity, a[1])>>

\* entities(): a fresh iterator over EntityType::iter(), nothing yielded yet
entities(o) == [active |-> TRUE, pos |-> 0, yielded |-> <<>>, done |-> FALSE]

\* Iterator::next of the filter_map: the position of the next entity type
\* that has an address, or past the end when there is none
\* variant of NextPos that walks the entity types from the last one
NextPos_from_back(o, pos) ==
    LET hits == {k \in (pos + 1)..Len(EntityType_iter) :
                    FilterMapItem(o, EntityType_iter[k]) # <<>>}
    IN IF hits = {} THEN Len(EntityType_iter) + 1
       ELSE CHOOSE k \in hits : \A j \in hits : k >= j

NextPos(o, pos) ==
    LET hits == {k \in (pos + 1)..Len(EntityType_iter) :
                    FilterMapItem(o, EntityType_iter[k]) # <<>>}
    IN IF hits = {} THEN Len(EntityType_iter) + 1
       ELSE CHOOSE k \in hits : \A j \in hits : k <= j

Iterator_next(o, it) ==
    LET k == NextPos(o, it.pos)
    IN IF k > Len(EntityType_iter)
       THEN [it EXCEPT !.pos = Len(EntityType_iter), !.done = TRUE]
       ELSE [it EXCEPT !.pos = k,
                       !.yielded = @ \o FilterMapItem(o, EntityType_iter[k])]

\* the generic encoding of the operation: its eleven fields as tokens
UserOperation_into_tokens(o) ==
    << Token_Address(o.sender),
       Token_Uint(o.nonce),
       Token_Bytes(o.init_code),
       Token_Bytes(o.call_data),
       Token_Uint(o.call_gas_limit),
       Token_Uint(o.verification_gas_limit),
       Token_Uint(o.pre_verification_gas),
       Token_Uint(o.max_fee_per_gas),
       Token_Uint(o.max_priority_fee_per_gas),
       Token_Bytes(o.paymaster_and_data),
       Token_Bytes(o.signature) >>

AbiEncode_encode(o) == encode(UserOperation_into_tokens(o))

(***************************************************************************)
(* Inputs.                                                                 *)
(***************************************************************************)
\* a byte string of length n whose i-th byte is seed + i
Fill(n, seed) == [i \in 1..n |-> (seed + i) % 256]

\* d with every byte after the leading twenty changed
Retail(d) == [i \in 1..Len(d) |-> IF i <= 20 THEN d[i] ELSE (d[i] + 1) % 256]

ZeroAddress == Zeros(20)

\* 0x66a15edcc3b50a663e72f1457ffd49b9ae284ddc
TestEntryPoint ==
    << 102, 161, 94, 220, 195, 181, 10, 102, 62, 114,
       241, 69, 127, 253, 73, 185, 174, 40, 77, 220 >>

\* 0x1306b01bc3e4ad202612d3843387e94737673f53
TestSender ==
    << 19, 6, 176, 27, 195, 228, 173, 32, 38, 18,
       211, 132, 51, 135, 233, 71, 55, 103, 63, 83 >>

\* the operation of test_hash_zeroed
ZeroOp ==
    [ sender |-> ZeroAddress,
      nonce |-> U256FromNat(0),
      init_code |-> <<>>,
      call_data |-> <<>>,
      call_gas_limit |-> U256FromNat(0),
      verification_gas_limit |-> U256FromNat(0),
      pre_verification_gas |-> U256FromNat(0),
      max_fee_per_gas |-> U256FromNat(0),
      max_priority_fee_per_gas |-> U256FromNat(0),
      paymaster_and_data |-> <<>>,
      signature |-> <<>> ]

\* operations whose dynamic fields have every length up to MaxLen
SizeOps ==
    { [ZeroOp EXCEPT !.sender = TestSender,
                     !.init_code = Fill(a, 16),
                     !.call_data = Retail(Fill(c, 16)),
                     !.paymaster_and_data = Fill(b, 64),
                     !.signature = Fill(g, 128)] :
        <<a, b, c, g>> \in { q \in (0..MaxLen) \X (0..MaxLen) \X (0..(MaxLen + 1)) \X (0..MaxLen) :
                               /\ q[3] \in {0, q[1] + 1}
                               /\ q[4] \in {0, q[2]} } }

DynamicFields(o) == {o.init_code, o.call_data, o.paymaster_and_data, o.signature}

NoCall == [fn |-> "none", val |-> <<>>]
NoIter == [active |-> FALSE, pos |-> 0, yielded |-> <<>>, done |-> FALSE]
\* what an earlier, exhausted iterator over the same operation yielded
NoEarlier == None
NoKeccak == [pc |-> "off", stage |-> 0, digests |-> <<>>, msg |-> <<>>, A |-> <<>>, round |-> 0]

(***************************************************************************)
(* Spec: the size, address and entity functions applied to one operation.  *)
(***************************************************************************)
Init ==
    /\ op \in SizeOps
    /\ entry_point = TestEntryPoint
    /\ chain_id = U64FromHalves(0, 1337)
    /\ op2 = op
    /\ entry_point2 = entry_point
    /\ chain_id2 = chain_id
    /\ data = <<>>
    /\ ret = NoCall
    /\ iter = NoIter
    /\ earlier = NoEarlier
    /\ kc = NoKeccak

Inputs == <<op, entry_point, chain_id, op2, entry_point2, chain_id2>>

Return(fn, val) ==
    /\ ret' = [fn |-> fn, val |-> val]
    /\ iter' = NoIter
    /\ earlier' = NoEarlier
    /\ UNCHANGED <<Inputs, kc>>

CallId ==
    /\ data' = <<>>
    /\ Return("id", id(op))

CallFactory ==
    /\ data' = op.init_code
    /\ Return("factory", factory(op))

CallPaymaster ==
    /\ data' = op.paymaster_and_data
    /\ Return("paymaster", paymaster(op))

CallGetAddressFromField ==
    \E d \in DynamicFields(op) :
        /\ data' = d
        /\ Return("get_address_from_field", get_address_from_field(d))

CallPadLen ==
    \E d \in DynamicFields(op) :
        /\ data' = d
        /\ Return("pad_len", pad_len(d))

CallAbiEncodedSize ==
    /\ data' = <<>>
    /\ Return("abi_encoded_size", abi_encoded_size(op))

CallHeapSize ==
    /\ data' = <<>>
    /\ Return("heap_size", heap_size(op))

\* entities(): a new iterator; an iterator in use is dropped
CallEntities ==
    /\ iter' = entities(op)
    /\ earlier' = IF iter.done THEN Some(iter.yielded) ELSE NoEarlier
    /\ ret' = [fn |-> "entities", val |-> <<>>]
    /\ data' = <<>>
    /\ UNCHANGED <<Inputs, kc>>

\* next() on the iterator; the item (or None) is the call's result
CallIteratorNext ==
    /\ iter.active
    /\ ~iter.done
    /\ iter' = Iterator_next(op, iter)
    /\ ret' = [fn |-> "next",
               val |-> SubSeq(iter'.yielded, Len(iter.yielded) + 1, Len(iter'.yielded))]
    /\ UNCHANGED <<Inputs, data, earlier, kc>>

Next ==
    \/ CallId
    \/ CallFactory
    \/ CallPaymaster
    \/ CallGetAddressFromField
    \/ CallPadLen
    \/ CallAbiEncodedSize
    \/ CallHeapSize
    \/ CallEntities
    \/ CallIteratorNext

Spec == Init /\ [][Next]_vars

(***************************************************************************)
(* SpecHash: op_hash and pack_for_hash applied to two operations, entry    *)
(* points and chain ids, with keccak256 an ideal digest.                   *)
(***************************************************************************)
UintFields ==
    {"nonce", "call_gas_limit", "verification_gas_limit", "pre_verification_gas",
     "max_fee_per_gas", "max_priority_fee_per_gas"}

HashedBytesFields == {"init_code", "call_data", "paymaster_and_data"}

\* every field other than signature
HashedFields == {"sender"} \cup UintFields \cup HashedBytesFields

\* short byte strings, and one longer than a word
HashBytes == {<<b>> : b \in 0..MaxByte} \cup {Fill(33, 16)}

\* the zero operation with one hashed field changed
OneFieldVariants ==
    {ZeroOp}
    \cup {[ZeroOp EXCEPT !.sender = TestSender]}
    \cup {[ZeroOp EXCEPT ![f] = U256FromNat(n)] : f \in UintFields, n \in 1..MaxByte}
    \cup {[ZeroOp EXCEPT ![f] = b] : f \in HashedBytesFields, b \in HashBytes}

HashOps == {[o EXCEPT !.signature = sg] : o \in OneFieldVariants, sg \in {<<>>, <<1>>}}

EntryPoints == {TestEntryPoint, ZeroAddress}

\* 1337 and 2^32 + 1337: equal in their low 32 bits
ChainIds == {U64FromHalves(0, 1337), U64FromHalves(1, 1337)}

InitHash ==
    /\ op \in HashOps
    /\ op2 \in HashOps
    /\ entry_point \in EntryPoints
    /\ entry_point2 \in EntryPoints
    /\ chain_id \in ChainIds
    /\ chain_id2 \in ChainIds
    /\ data = <<>>
    /\ ret = NoCall
    /\ iter = NoIter
    /\ earlier = NoEarlier
    /\ kc = NoKeccak

CallOpHash ==
    /\ data' = <<>>
    /\ Return("op_hash", << op_hash(op, entry_point, chain_id),
                            op_hash(op2, entry_point2, chain_id2) >>)

CallPackForHash ==
    /\ data' = <<>>
    /\ Return("pack_for_hash", << pack_for_hash(op), pack_for_hash(op2) >>)

NextHash ==
    \/ CallOpHash
    \/ CallPackForHash

SpecHash == InitHash /\ [][NextHash]_vars

(***************************************************************************)
(* Keccak-256 (ethers::utils::keccak256), concretely.  The sponge state is *)
(* 25 lanes of 64 bits, lane x + 5y at index x + 5y + 1; a lane is the set *)
(* of its one-bits, so xor is symmetric difference and rotation a shift of *)
(* the elements modulo 64.                                                 *)
(***************************************************************************)
Lane == 0..63

Xor(a, b) == {i \in Lane : (i \in a) # (i \in b)}

Rot(a, n) == {(i + n) % 64 : i \in a}

\* the round constants, as sets of bit positions
RC ==
    << {0}, {1,7,15}, {1,3,7,15,63}, {15,31,63}, {0,1,3,7,15}, {0,31},
       {0,7,15,31,63}, {0,3,15,63}, {1,3,7}, {3,7}, {0,3,15,31}, {1,3,31},
       {0,1,3,7,15,31}, {0,1,3,7,63}, {0,3,7,15,63}, {0,1,15,63}, {1,15,63},
       {7,63}, {1,3,15}, {1,3,31,63}, {0,7,15,31,63}, {7,15,63}, {0,31},
       {3,15,31,63} >>

\* the rotation offsets of rho, at index x + 5y + 1
RHO ==
    <<  0,  1, 62, 28, 27,
       36, 44,  6, 55, 20,
        3, 10, 43, 25, 39,
       41, 45, 15, 21,  8,
       18,  2, 61, 56, 14 >>

\* one round of Keccak-f[1600]: theta, rho and pi, chi, iota
Round(A, r) ==
    LET C == [x \in 0..4 |->
                Xor(Xor(Xor(Xor(A[x + 1], A[x + 6]), A[x + 11]), A[x + 16]), A[x + 21])]
        D == [x \in 0..4 |-> Xor(C[(x + 4) % 5], Rot(C[(x + 1) % 5], 1))]
        T == [i \in 0..24 |-> Xor(A[i + 1], D[i % 5])]
        \* B[y, 2x + 3y] = rot(T[x, y], RHO[x, y])
        B == [i \in 0..24 |->
                LET bx == i % 5
                    by == i \div 5
                    sx == (bx + 3 * by) % 5
                IN Rot(T[sx + 5 * bx], RHO[sx + 5 * bx + 1])]
    IN [i \in 1..25 |->
            LET x == (i - 1) % 5
                y == (i - 1) \div 5
                chi == Xor(B[x + 5 * y], B[((x + 2) % 5) + 5 * y] \ B[((x + 1) % 5) + 5 * y])
            IN IF i = 1 THEN Xor(chi, RC[r]) ELSE chi]

\* bytes absorbed per block by Keccak-256
Rate == 136

\* pad10*1 with the Keccak domain byte 0x01, to whole blocks
Pad(m) ==
    LET n == Rate - (Len(m) % Rate)
    IN m \o [i \in 1..n |-> (IF i = 1 THEN 1 ELSE 0) + (IF i = n THEN 128 ELSE 0)]

\* the one-bits byte b contributes as byte k of a little-endian lane
ByteBits(b, k) == {8 * k + j : j \in {j \in 0..7 : (b \div (2 ^ j)) % 2 = 1}}

LaneOfBlock(blk, i) == UNION {ByteBits(blk[8 * (i - 1) + k + 1], k) : k \in 0..7}

AbsorbBlock(A, blk) ==
    [i \in 1..25 |-> IF 8 * i <= Rate THEN Xor(A[i], LaneOfBlock(blk, i)) ELSE A[i]]

RECURSIVE BitsValue(_, _, _)
BitsValue(l, k, j) ==
    IF j > 7 THEN 0
    ELSE (IF 8 * k + j \in l THEN 2 ^ j ELSE 0) + BitsValue(l, k, j + 1)

\* the first 32 bytes of the state
Squeeze(A) == [i \in 1..32 |-> BitsValue(A[((i - 1) \div 8) + 1], (i - 1) % 8, 0)]

ZeroState == [i \in 1..25 |-> {}]

\* the bytes of an encoding
Flatten(words) ==
    [i \in 1..(32 * Len(words)) |-> words[((i - 1) \div 32) + 1][((i - 1) % 32) + 1]]

(***************************************************************************)
(* SpecKeccak: op_hash of the two operations of the tests, evaluated with  *)
(* the concrete digest, one absorbed block or one round per step.  The     *)
(* stages are the five digests op_hash computes, in the order of the code. *)
(***************************************************************************)
\* the operation of test_hash
TestOp ==
    [ sender |-> TestSender,
      nonce |-> U256FromNat(8942),
      init_code |->
        << 105, 66, 6, 148, 32, 105, 66, 6, 148, 32, 105, 66,
           6, 148, 32, 105, 66, 6, 148, 32 >>,
      call_data |->
        << 0, 0, 0, 0, 0, 0, 0, 0, 0, 0, 0, 0,
           0, 0, 0, 0, 0, 0, 0, 0, 8, 0, 133 >>,
      call_gas_limit |-> U256FromNat(10000),
      verification_gas_limit |-> U256FromNat(100000),
      pre_verification_gas |-> U256FromNat(100),
      max_fee_per_gas |-> U256FromNat(99999),
      max_priority_fee_per_gas |-> U256FromNat(9999999),
      paymaster_and_data |->
        << 1, 35, 69, 103, 137, 171, 205, 239, 1, 35, 69, 103,
           137, 171, 205, 239, 1, 35, 69, 103, 137, 171, 205, 239,
           1, 35, 69, 103, 137, 171, 205, 239, 1, 35, 69, 103,
           137, 171, 205, 239 >>,
      signature |->
        << 218, 9, 41, 245, 39, 205, 237, 141, 10, 30, 175, 46,
           136, 97, 215, 247, 226, 216, 22, 11, 123, 19, 148, 47,
           153, 221, 54, 125, 244, 71, 58 >> ]

Stages == <<"init_code", "call_data", "paymaster_and_data", "packed", "outer">>

\* the message of stage k, given the digests of the earlier stages
StageMessage(k, digests) ==
    CASE k = 1 -> op.init_code
      [] k = 2 -> op.call_data
      [] k = 3 -> op.paymaster_and_data
      [] k = 4 -> Flatten(encode(PackTokens(op, digests[1], digests[2], digests[3])))
      [] k = 5 -> Flatten(encode(OpHashTokens(digests[4], entry_point, chain_id)))

StartStage(k, digests) ==
    [ pc |-> Stages[k],
      stage |-> k,
      digests |-> digests,
      msg |-> Pad(StageMessage(k, digests)),
      A |-> ZeroState,
      round |-> 0 ]

InitKeccak ==
    /\ op \in {ZeroOp, TestOp}
    /\ entry_point = TestEntryPoint
    /\ chain_id = U64FromHalves(0, 1337)
    /\ op2 = op
    /\ entry_point2 = entry_point
    /\ chain_id2 = chain_id
    /\ data = <<>>
    /\ ret = NoCall
    /\ iter = NoIter
    /\ earlier = NoEarlier
    /\ kc = StartStage(1, <<>>)

KeccakRunning == kc.pc \notin {"off", "done"}

\* xor the next block of the padded message into the state
KeccakAbsorb ==
    /\ KeccakRunning
    /\ kc.round = 0
    /\ kc.msg # <<>>
    /\ kc' = [kc EXCEPT !.A = AbsorbBlock(kc.A, SubSeq(kc.msg, 1, Rate)),
                        !.msg = SubSeq(kc.msg, Rate + 1, Len(kc.msg)),
                        !.round = 1]
    /\ UNCHANGED <<Inputs, data, ret, iter, earlier>>

\* one of the 24 rounds of the permutation
KeccakRound ==
    /\ KeccakRunning
    /\ kc.round >= 1
    /\ kc' = [kc EXCEPT !.A = Round(kc.A, kc.round),
                        !.round = IF kc.round = 24 THEN 0 ELSE kc.round + 1]
    /\ UNCHANGED <<Inputs, data, ret, iter, earlier>>

\* the message is absorbed: take the digest and go on to the next stage;
\* the digest of the last stage is what op_hash returns
KeccakSqueeze ==
    /\ KeccakRunning
    /\ kc.round = 0
    /\ kc.msg = <<>>
    /\ LET digests == Append(kc.digests, Squeeze(kc.A))
       IN IF kc.stage < Len(Stages)
          THEN /\ kc' = StartStage(kc.stage + 1, digests)
               /\ ret' = ret
          ELSE /\ kc' = [pc |-> "done", stage |-> kc.stage, digests |-> digests,
                         msg |-> <<>>, A |-> ZeroState, round |-> 0]
               /\ ret' = [fn |-> "op_hash", val |-> digests[Len(Stages)]]
    /\ UNCHANGED <<Inputs, data, iter, earlier>>

NextKeccak ==
    \/ KeccakAbsorb
    \/ KeccakRound
    \/ KeccakSqueeze

SpecKeccak == InitKeccak /\ [][NextKeccak]_vars

(***************************************************************************)
(* Properties of Spec.                                                     *)
(***************************************************************************)
\* n rounded up to a whole number of 32-byte words, by division
RoundUp32(n) == ((n + 31) \div 32) * 32

\* C3: abi_encoded_size(op) is the byte length of the generic ABI encoding
\* of the operation's eleven fields: eleven head words, and for each of the
\* four dynamic fields a length word and the bytes padded to whole words.
C3_SizeEqualsGenericEncoding ==
    ret.fn = "abi_encoded_size" =>
        /\ ret.val = ByteLen(AbiEncode_encode(op))
        /\ ret.val = 11 * 32
                     + (32 + RoundUp32(Len(op.init_code)))
                     + (32 + RoundUp32(Len(op.call_data)))
                     + (32 + RoundUp32(Len(op.paymaster_and_data)))
                     + (32 + RoundUp32(Len(op.signature)))

\* an operation with an empty field, a one-byte field and two 33-byte fields
C3_Witness ==
    /\ ret.fn = "abi_encoded_size"
    /\ Len(op.init_code) = 0
    /\ Len(op.call_data) = 1
    /\ Len(op.paymaster_and_data) = 33
    /\ Len(op.signature) = 33
    /\ ret.val = 640

\* C4: get_address_from_field never fails, returns None exactly when the
\* field is shorter than 20 bytes and otherwise the address made of the
\* first 20 bytes, whatever follows them.
C4_LeadingAddress ==
    ret.fn = "get_address_from_field" =>
        /\ ret.val # Panic
        /\ (ret.val = None) <=> (Len(data) < 20)
        /\ Len(data) >= 20 =>
              /\ Len(ret.val) = 1
              /\ Len(ret.val[1]) = 20
              /\ \A i \in 1..20 : ret.val[1][i] = data[i]
              /\ \A d2 \in {Retail(data), data \o <<7>>, SubSeq(data, 1, 20)} :
                    get_address_from_field(d2) = ret.val

\* a field of exactly 20 bytes yields an address
C4_Witness ==
    /\ ret.fn = "get_address_from_field"
    /\ Len(data) = 20
    /\ ret.val = Some(Fill(20, 16))

KindsOf(items) == [i \in 1..Len(items) |-> items[i].kind]

ItemsOfKind(items, kind) == {i \in 1..Len(items) : items[i].kind = kind}

\* C5: the exhausted iterator has yielded an Account entity with the
\* sender's address, a Paymaster entity iff paymaster_and_data has at least
\* 20 bytes (its first 20 bytes being the address), a Factory entity iff
\* init_code has at least 20 bytes (likewise), and no Aggregator entity.
C5_EntitiesContent ==
    (iter.active /\ iter.done) =>
        LET items == iter.yielded
        IN /\ \E i \in ItemsOfKind(items, "Account") : items[i].address = op.sender
           /\ (ItemsOfKind(items, "Paymaster") # {}) <=> (Len(op.paymaster_and_data) >= 20)
           /\ \A i \in ItemsOfKind(items, "Paymaster") :
                 items[i].address = SubSeq(op.paymaster_and_data, 1, 20)
           /\ (ItemsOfKind(items, "Factory") # {}) <=> (Len(op.init_code) >= 20)
           /\ \A i \in ItemsOfKind(items, "Factory") :
                 items[i].address = SubSeq(op.init_code, 1, 20)
           /\ ItemsOfKind(items, "Aggregator") = {}

\* an operation with a paymaster and a factory, fully enumerated
C5_Witness ==
    /\ iter.active /\ iter.done
    /\ Len(op.paymaster_and_data) = 20
    /\ Len(op.init_code) = 21
    /\ Len(iter.yielded) = 3

\* C6: heap_size(op) is the unpadded sum of the four dynamic field lengths
\* and is at most abi_encoded_size(op).
C6_HeapSize ==
    ret.fn = "heap_size" =>
        /\ ret.val = Len(op.init_code) + Len(op.call_data)
                     + Len(op.paymaster_and_data) + Len(op.signature)
        /\ ret.val <= abi_encoded_size(op)

\* four non-empty fields, none a multiple of 32
C6_Witness ==
    /\ ret.fn = "heap_size"
    /\ Len(op.init_code) = 20
    /\ Len(op.call_data) = 21
    /\ Len(op.paymaster_and_data) = 33
    /\ Len(op.signature) = 33
    /\ ret.val = 107

PositionIn(seq, x) == CHOOSE i \in 1..Len(seq) : seq[i] = x

\* C9: the items come in the declared order Account, Paymaster, Factory,
\* Aggregator; Account is first; no type twice; an exhausted iterator has
\* yielded 1 to 3 items; a second enumeration yields the same sequence.
C9_EntitiesOrder ==
    iter.active =>
        LET kinds == KindsOf(iter.yielded)
        IN /\ \A i \in 1..Len(kinds) : \E k \in 1..Len(EntityType_iter) : EntityType_iter[k] = kinds[i]
           /\ \A i, j \in 1..Len(kinds) :
                 i < j => PositionIn(EntityType_iter, kinds[i]) < PositionIn(EntityType_iter, kinds[j])
           /\ Len(kinds) >= 1 => kinds[1] = "Account"
           /\ Len(kinds) <= 3
           /\ iter.done => Len(kinds) >= 1
           /\ (iter.done /\ earlier # None) => iter.yielded = earlier[1]

\* a second enumeration of an operation with paymaster and factory is complete
C9_Witness ==
    /\ iter.active /\ iter.done
    /\ earlier # None
    /\ KindsOf(iter.yielded) = <<"Account", "Paymaster", "Factory">>

\* C10: pad_len returns the least multiple of 32 that is at least the
\* length, and abi_encoded_size is a multiple of 32 and at least 480.
C10_PadLen ==
    /\ ret.fn = "pad_len" =>
          /\ ret.val % 32 = 0
          /\ Len(data) <= ret.val
          /\ ret.val < Len(data) + 32
          /\ Len(data) % 32 = 0 => ret.val = Len(data)
    /\ ret.fn = "abi_encoded_size" =>
          /\ ret.val % 32 = 0
          /\ ret.val >= 480

\* a length just past a word boundary
C10_Witness ==
    /\ ret.fn = "pad_len"
    /\ Len(data) = 33
    /\ ret.val = 64

(***************************************************************************)
(* Properties of SpecHash.                                                 *)
(***************************************************************************)
AgreeExceptSignature(o1, o2) == \A f \in HashedFields : o1[f] = o2[f]

\* C1: two operations that agree on every field except signature have the
\* same pack_for_hash bytes and, for the same entry point and chain id, the
\* same op_hash.
C1_SignatureNotHashed ==
    AgreeExceptSignature(op, op2) =>
        /\ ret.fn = "pack_for_hash" => ret.val[1] = ret.val[2]
        /\ (ret.fn = "op_hash" /\ entry_point = entry_point2 /\ chain_id = chain_id2) =>
              ret.val[1] = ret.val[2]

\* two operations with nonce 1 and different signatures, hashed
C1_Witness ==
    /\ ret.fn = "op_hash"
    /\ AgreeExceptSignature(op, op2)
    /\ op.signature # op2.signature
    /\ op.nonce = U256FromNat(1)
    /\ entry_point = entry_point2
    /\ chain_id = chain_id2

\* C2: with a collision-free digest, equal op_hash values come only from the
\* same entry point, the same chain id and operations that agree on every
\* field other than signature.
C2_HashBindsInputs ==
    (ret.fn = "op_hash" /\ ret.val[1] = ret.val[2]) =>
        /\ entry_point = entry_point2
        /\ chain_id = chain_id2
        /\ AgreeExceptSignature(op, op2)

\* the same operation and entry point under two chain ids that differ only
\* above bit 31 have different hashes
C2_Witness ==
    /\ ret.fn = "op_hash"
    /\ op = op2
    /\ entry_point = entry_point2
    /\ chain_id # chain_id2
    /\ SubSeq(chain_id, 5, 8) = SubSeq(chain_id2, 5, 8)
    /\ ret.val[1] # ret.val[2]

\* C7: pack_for_hash(op) is ten 32-byte words in the order sender, nonce,
\* hash(init_code), hash(call_data), call_gas_limit, verification_gas_limit,
\* pre_verification_gas, max_fee_per_gas, max_priority_fee_per_gas,
\* hash(paymaster_and_data): 320 bytes, none of them from the signature.
C7_PackLayout ==
    ret.fn = "pack_for_hash" =>
        /\ ret.val[1] = << Zeros(12) \o op.sender,
                           op.nonce,
                           keccak256(op.init_code),
                           keccak256(op.call_data),
                           op.call_gas_limit,
                           op.verification_gas_limit,
                           op.pre_verification_gas,
                           op.max_fee_per_gas,
                           op.max_priority_fee_per_gas,
                           keccak256(op.paymaster_and_data) >>
        /\ ByteLen(ret.val[1]) = 320
        /\ ByteLen(ret.val[2]) = 320

\* a call with a 33-byte field, a non-zero gas limit in the other operation
C7_Witness ==
    /\ ret.fn = "pack_for_hash"
    /\ Len(op.init_code) = 33
    /\ op.signature = <<1>>
    /\ op2.call_gas_limit = U256FromNat(1)

(***************************************************************************)
(* Properties of SpecKeccak.                                               *)
(***************************************************************************)
\* 0xdca97c3b49558ab360659f6ead939773be8bf26631e61bb17045bb70dc983b2d
ZeroOpHash ==
    << 220, 169, 124, 59, 73, 85, 138, 179, 96, 101, 159, 110,
       173, 147, 151, 115, 190, 139, 242, 102, 49, 230, 27, 177,
       112, 69, 187, 112, 220, 152, 59, 45 >>

\* 0x484add9e4d8c3172d11b5feb6a3cc712280e176d278027cfa02ee396eb28afa1
TestOpHash ==
    << 72, 74, 221, 158, 77, 140, 49, 114, 209, 27, 95, 235,
       106, 60, 199, 18, 40, 14, 23, 109, 39, 128, 39, 207,
       160, 46, 227, 150, 235, 40, 175, 161 >>

\* C8: with entry point 0x66a1...4ddc and chain id 1337, op_hash of the
\* all-zero operation is 0xdca9...3b2d and op_hash of the operation of
\* test_hash is 0x484a...afa1, the values of the contract's getUserOpHash.
C8_ReferenceHashes ==
    kc.pc = "done" =>
        /\ ret.fn = "op_hash"
        /\ op = ZeroOp => ret.val = ZeroOpHash
        /\ op = TestOp => ret.val = TestOpHash

\* the hash of the populated operation has been computed
C8_Witness ==
    /\ kc.pc = "done"
    /\ op = TestOp
    /\ op.nonce = U256FromNat(8942)
    /\ Len(ret.val) = 32

====
